---- MODULE Spec2Model ----
(***************************************************************************)
(* Scan state store of sql_repo_scanner/agent.py: the session dictionary   *)
(* tool_context.state, the tools that read and write it, and the part of   *)
(* the file system the tools look at.                                      *)
(*                                                                         *)
(* Paths are sequences of path components: "lib/c.txt" is <<"lib",         *)
(* "c.txt">>.  A Python dict is a function whose DOMAIN is its key set;    *)
(* the order in which a dict is iterated is drawn from every order of its  *)
(* keys.                                                                   *)
(***************************************************************************)
EXTENDS Naturals, Sequences, FiniteSets, TLC

VARIABLES
    state,      \* tool_context.state: a dict, empty in a new session
    fs_root,    \* what state['repo_path'] names on disk: "missing", "file", "dir"
    fs_files,   \* regular files under that directory, relative to it
    seen,       \* history: files that existed under the root at an enumeration since the last clone
    enumerated, \* history: some list_repo_files call of the session succeeded
    last        \* the most recent tool call: its name, arguments and returned dict

vars == <<state, fs_root, fs_files, seen, enumerated, last>>

----------------------------------------------------------------------------
(* Bounds and input universes *)

\* longest statement list handed to save_sql_statements
MaxStatements == 1

Statements == {"SELECT 1", "INSERT INTO t VALUES (1)"}

\* the lists of at most n statements of S, none of them twice, in every order
RECURSIVE ListsUpTo(_, _)
ListsUpTo(S, n) ==
    IF n = 0 THEN {<<>>}
    ELSE LET shorter == ListsUpTo(S, n - 1)
         IN  shorter \cup {Append(q, x) : q \in {r \in shorter : Len(r) = n - 1},
                               x \in S}

SqlLists == {q \in ListsUpTo(Statements, MaxStatements) :
                \A i, j \in 1..Len(q) : q[i] = q[j] => i = j}

\* files a working tree may hold besides its VCS metadata
WorkFiles == {<<"a.py">>, <<"lib", "c.txt">>}
\* the VCS metadata every clone carries
GitFiles == {<<".git", "config">>}
\* paths a scanner may name in a write: the work files, and one never on disk
WritePaths == WorkFiles \cup {<<"y.sql">>}

\* repository locators, as token sequences
Words == {"github.com", "acme", "shop"}
Urls == { <<"git@", "github.com", ":", "acme", "/", "shop", ".git">>,
          <<"https://", "github.com", "/", "acme", "/", "shop", ".git">> }

----------------------------------------------------------------------------
(* Dict helpers *)

DictSet(d, k, v) == [q \in (DOMAIN d) \cup {k} |-> IF q = k THEN v ELSE d[q]]

\* all orders in which the elements of a finite set can be visited
RECURSIVE Orders(_)
Orders(S) ==
    IF S = {} THEN {<<>>}
    ELSE UNION {{<<x>> \o o : o \in Orders(S \ {x})} : x \in S}

Range(q) == {q[i] : i \in 1..Len(q)}

StoreSet == "repository_analysis" \in DOMAIN state
Store == state["repository_analysis"]

----------------------------------------------------------------------------
(* clone_git_repo *)

\* re.search(r"git@[\w.-]+:([\w.-]+)/([\w.-]+?)(?:\.git)?$", url): the pattern
\* is looked for at any start and must end the locator; the optional ".git"
\* is not part of group 2.  The result is the set of matches (empty: None).
ssh_url_match(url) ==
    LET n == Len(url)
        body(i) == /\ i >= 1 /\ i + 5 <= n
                   /\ url[i] = "git@"
                   /\ url[i + 1] \in Words
                   /\ url[i + 2] = ":"
                   /\ url[i + 3] \in Words
                   /\ url[i + 4] = "/"
                   /\ url[i + 5] \in Words
        ends(i) == \/ i + 5 = n
                   \/ i + 6 = n /\ url[n] = ".git"
    IN  {[owner |-> url[i + 3], name |-> url[i + 5]] : i \in {j \in 1..n : body(j) /\ ends(j)}}

\* tempfile.mkdtemp(prefix=f"repo_{owner}_{name}_")
mkdtemp(owner, name) == <<"tmp", "repo", owner, name>>

\* the state after a successful clone_from
CloneState(url, m, path) ==
    LET s1 == DictSet(state, "repo_url", url)
        s2 == DictSet(s1, "repo_owner", m.owner)
        s3 == DictSet(s2, "repo_name", m.name)
        s4 == DictSet(s3, "repo_path", path)
    IN  DictSet(s4, "repository_analysis", <<>>)

\* what the except branch can meet: the call that raised (mkdtemp with an
\* OSError, clone_from with a GitError), and what became of the temporary
\* directory (none was made, rmtree succeeded, rmtree raised)
CloneFaults ==
    {[raised_in |-> "mkdtemp", error_type |-> "Unexpected error", cleanup |-> "none"]}
    \cup [raised_in : {"clone_from"},
          error_type : {"Git command error"},
          cleanup : {"removed", "failed"}]

\* faulty variant of clone_failed: a cleanup that raises replaces the result
clone_failed_escalates(call, fault) ==
    [call |-> call,
     made_dir |-> fault.raised_in = "clone_from",
     clone_attempted |-> fault.raised_in = "clone_from",
     cleanup |-> fault.cleanup,
     ret |-> [status |-> "failure",
              message |-> IF fault.cleanup = "failed" THEN "Cleanup error"
                          ELSE fault.error_type]]

\* lines 64-76: the except branch; the record keeps, beside the returned
\* dict, whether mkdtemp made a directory, whether clone_from was called and
\* how the cleanup went
clone_failed(call, fault) ==
    [call |-> call,
     made_dir |-> fault.raised_in = "clone_from",
     clone_attempted |-> fault.raised_in = "clone_from",
     cleanup |-> fault.cleanup,
     ret |-> [status |-> "failure", message |-> fault.error_type]]

\* lines 35-41: the locator did not match
clone_rejected(call) ==
    [call |-> call,
     made_dir |-> FALSE,
     clone_attempted |-> FALSE,
     cleanup |-> "none",
     ret |-> [status |-> "failure", message |-> "Invalid or unsupported SSH repository URL format"]]

clone_git_repo(url) ==
    LET match == ssh_url_match(url)
        call  == [op |-> "clone_git_repo", url |-> url]
    IN  IF match = {}
        THEN /\ last' = clone_rejected(call)
             /\ UNCHANGED <<state, fs_root, fs_files, seen, enumerated>>
        ELSE \/ \E m \in match :
                    /\ state' = CloneState(url, m, mkdtemp(m.owner, m.name))
                    /\ fs_root' = "dir"
                    /\ \E work \in SUBSET WorkFiles : fs_files' = GitFiles \cup work
                    /\ seen' = {}
                    /\ last' = [call |-> call,
                                dropped |-> StoreSet /\ DOMAIN Store # {},
                                ret |-> [status |-> "success"]]
                    /\ UNCHANGED enumerated
             \/ \E fault \in CloneFaults :
                    \* the except branch: nothing was stored in the state
                    /\ last' = clone_failed(call, fault)
                    /\ UNCHANGED <<state, fs_root, fs_files, seen, enumerated>>

----------------------------------------------------------------------------
(* list_repo_files *)

\* is directory d (relative to the walk's top) a proper ancestor of file f
Under(d, f) == Len(f) > Len(d) /\ SubSeq(f, 1, Len(d)) = d

\* os.walk's `files` for directory d: the names of the regular files in it
walk_files(d) == {f[Len(f)] : f \in {g \in fs_files : Under(d, g) /\ Len(g) = Len(d) + 1}}

\* os.walk's `dirnames` for directory d: the names of its subdirectories
walk_dirnames(d) == {f[Len(d) + 1] : f \in {g \in fs_files : Under(d, g) /\ Len(g) > Len(d) + 1}}

\* faulty variant of prune_vcs: the walk descends into .git
prune_vcs_kept(dirnames) == dirnames

\* if '.git' in dirnames: dirnames.remove('.git')
prune_vcs(dirnames) == dirnames \ {".git"}

\* os.path.join(root, file)
path_join(root, file) == Append(root, file)

\* faulty variant of relpath: the file's name alone (os.path.basename)
relpath_basename(path, start) == <<path[Len(path)]>>

\* os.path.relpath(path, start), for a path below start
relpath(path, start) == SubSeq(path, Len(start) + 1, Len(path))

\* every concatenation that takes one sequence from each set of a sequence of sets
RECURSIVE ConcatAll(_)
ConcatAll(sets) ==
    IF sets = <<>> THEN {<<>>}
    ELSE {h \o t : h \in Head(sets), t \in ConcatAll(Tail(sets))}

\* The relative paths the loop over os.walk(top) appends to files_to_scan, from
\* directory d (relative to top) downwards: this directory's files, then each
\* kept subdirectory in turn.  The listing order of a directory is the
\* operating system's, so the result is the set of possible sequences.
RECURSIVE walk_from(_, _)
walk_from(top, d) ==
    LET root == top \o d
        here == {[i \in 1..Len(o) |-> relpath(path_join(root, o[i]), top)] :
                     o \in Orders(walk_files(d))}
        below(o) == [i \in 1..Len(o) |-> walk_from(top, Append(d, o[i]))]
    IN  UNION { {h \o b : h \in here, b \in ConcatAll(below(o))} :
                    o \in Orders(prune_vcs(walk_dirnames(d))) }

\* the entry list_repo_files writes for a discovered file
seed_entry == [sql_statements |-> <<>>, scanned |-> FALSE]

\* faulty variant of seed_all: an entry the store already has is kept (setdefault)
RECURSIVE seed_all_keep(_, _)
seed_all_keep(ra, files) ==
    IF files = <<>> THEN ra
    ELSE seed_all_keep(IF Head(files) \in DOMAIN ra THEN ra
                       ELSE DictSet(ra, Head(files), seed_entry), Tail(files))

\* faulty variant of seed_all: the store is rebuilt from the files found
RECURSIVE seed_all_rebuild(_, _)
seed_all_rebuild(ra, files) ==
    IF files = <<>> THEN <<>>
    ELSE DictSet(seed_all_rebuild(ra, Tail(files)), Head(files), seed_entry)

\* the assignments of the loop body, for the files in the order found
RECURSIVE seed_all(_, _)
seed_all(ra, files) ==
    IF files = <<>> THEN ra
    ELSE seed_all(DictSet(ra, Head(files), seed_entry), Tail(files))

\* faulty variant of list_repo_files: the store is emptied before the root is
\* checked
list_repo_files_resets_first ==
    LET call == [op |-> "list_repo_files"]
        \* history: the revisited paths whose recorded entry this call discards
        reset(files) == IF StoreSet
                        THEN {f \in Range(files) \cap DOMAIN Store : Store[f] # seed_entry}
                        ELSE {}
    IN  IF "repo_path" \notin DOMAIN state
        THEN \* state.get('repo_path') is None and os.path.exists(None) raises
             \* TypeError before the function's try block
             /\ last' = [call |-> call, ret |-> [exception |-> "TypeError"]]
             /\ UNCHANGED <<state, fs_root, fs_files, seen, enumerated>>
        ELSE IF fs_root = "missing"
        THEN \* not os.path.exists(local_repo_path)
             /\ last' = [call |-> call, ret |-> [status |-> "failure"]]
             /\ state' = DictSet(state, "repository_analysis", <<>>)
             /\ UNCHANGED <<fs_root, fs_files, seen, enumerated>>
        ELSE IF fs_root # "dir"
        THEN \* not os.path.isdir(local_repo_path)
             /\ last' = [call |-> call, ret |-> [status |-> "failure"]]
             /\ state' = DictSet(state, "repository_analysis", <<>>)
             /\ UNCHANGED <<fs_root, fs_files, seen, enumerated>>
        ELSE \* os.walk skips what it cannot list (onerror is None), so the
             \* except branch of the loop is not taken on a readable tree
             LET ra0 == IF StoreSet THEN Store ELSE <<>>
             IN  \E files_to_scan \in walk_from(state["repo_path"], <<>>) :
                   /\ state' = DictSet(state, "repository_analysis", seed_all(ra0, files_to_scan))
                   /\ seen' = seen \cup fs_files
                   /\ enumerated' = TRUE
                   /\ last' = [call |-> call, reset |-> reset(files_to_scan),
                               ret |-> [status |-> "success", files |-> files_to_scan]]
                   /\ UNCHANGED <<fs_root, fs_files>>


list_repo_files ==
    LET call == [op |-> "list_repo_files"]
        \* history: the revisited paths whose recorded entry this call discards
        reset(files) == IF StoreSet
                        THEN {f \in Range(files) \cap DOMAIN Store : Store[f] # seed_entry}
                        ELSE {}
    IN  IF "repo_path" \notin DOMAIN state
        THEN \* state.get('repo_path') is None and os.path.exists(None) raises
             \* TypeError before the function's try block
             /\ last' = [call |-> call, ret |-> [exception |-> "TypeError"]]
             /\ UNCHANGED <<state, fs_root, fs_files, seen, enumerated>>
        ELSE IF fs_root = "missing"
        THEN \* not os.path.exists(local_repo_path)
             /\ last' = [call |-> call, ret |-> [status |-> "failure"]]
             /\ UNCHANGED <<state, fs_root, fs_files, seen, enumerated>>
        ELSE IF fs_root # "dir"
        THEN \* not os.path.isdir(local_repo_path)
             /\ last' = [call |-> call, ret |-> [status |-> "failure"]]
             /\ UNCHANGED <<state, fs_root, fs_files, seen, enumerated>>
        ELSE \* os.walk skips what it cannot list (onerror is None), so the
             \* except branch of the loop is not taken on a readable tree
             LET ra0 == IF StoreSet THEN Store ELSE <<>>
             IN  \E files_to_scan \in walk_from(state["repo_path"], <<>>) :
                   /\ state' = DictSet(state, "repository_analysis", seed_all(ra0, files_to_scan))
                   /\ seen' = seen \cup fs_files
                   /\ enumerated' = TRUE
                   /\ last' = [call |-> call, reset |-> reset(files_to_scan),
                               ret |-> [status |-> "success", files |-> files_to_scan]]
                   /\ UNCHANGED <<fs_root, fs_files>>

----------------------------------------------------------------------------
(* save_sql_statements, mark_file_as_scanned *)


\* faulty variant of save_entry: an absent path is initialized as pending and the
\* write is not applied to it
save_entry_init_only(ra, path, sql_statements) ==
    IF path \notin DOMAIN ra
    THEN DictSet(ra, path, [sql_statements |-> <<>>, scanned |-> FALSE])
    ELSE [ra EXCEPT ![path] = [sql_statements |-> sql_statements, scanned |-> TRUE]]

\* faulty variant of save_entry: the statements are added to the recorded ones (extend)
save_entry_extend(ra, path, sql_statements) ==
    LET old == IF path \in DOMAIN ra THEN ra[path].sql_statements ELSE <<>>
    IN  DictSet(ra, path, [sql_statements |-> old \o sql_statements, scanned |-> TRUE])

\* faulty variant of save_entry: scanned is set to bool(sql_statements)
save_entry_truthy(ra, path, sql_statements) ==
    DictSet(ra, path, [sql_statements |-> sql_statements, scanned |-> sql_statements # <<>>])

\* lines 213-221: the store after save_sql_statements(path, sql_statements)
save_entry(ra, path, sql_statements) ==
    LET ra1 == IF path \notin DOMAIN ra
               THEN DictSet(ra, path, [sql_statements |-> <<>>, scanned |-> FALSE])
               ELSE ra
        ra2 == [ra1 EXCEPT ![path].sql_statements = sql_statements]
    IN  [ra2 EXCEPT ![path].scanned = TRUE]

save_sql_statements(path, sql_statements) ==
    LET call == [op |-> "save_sql_statements", path |-> path, sql_statements |-> sql_statements]
    IN  IF ~StoreSet
        THEN /\ last' = [call |-> call, ret |-> [status |-> "failure"]]
             /\ UNCHANGED <<state, fs_root, fs_files, seen, enumerated>>
        ELSE /\ state' = [state EXCEPT !["repository_analysis"] =
                                           save_entry(Store, path, sql_statements)]
             \* history: whether the path had an entry, and whether that entry
             \* held other statements than the ones saved now
             /\ last' = [call |-> call,
                         existed |-> path \in DOMAIN Store,
                         replaced |-> /\ path \in DOMAIN Store
                                      /\ Store[path].sql_statements # sql_statements,
                         ret |-> [status |-> "success"]]
             /\ UNCHANGED <<fs_root, fs_files, seen, enumerated>>

\* faulty variant of mark_entry: the entry is assigned whether or not the path is present
mark_entry_reinit(ra, path) ==
    DictSet(ra, path, [sql_statements |-> <<>>, scanned |-> TRUE])

\* faulty variant of mark_entry: a path that had no entry gets the unscanned default
\* and nothing more
mark_entry_heal_only(ra, path) ==
    IF path \notin DOMAIN ra
    THEN DictSet(ra, path, [sql_statements |-> <<>>, scanned |-> FALSE])
    ELSE [ra EXCEPT ![path].scanned = TRUE]

\* lines 243-250: the store after mark_file_as_scanned(path)
mark_entry(ra, path) ==
    LET ra1 == IF path \notin DOMAIN ra
               THEN DictSet(ra, path, [sql_statements |-> <<>>, scanned |-> TRUE])
               ELSE ra
    IN  [ra1 EXCEPT ![path].scanned = TRUE]

mark_file_as_scanned(path) ==
    LET call == [op |-> "mark_file_as_scanned", path |-> path]
    IN  IF ~StoreSet
        THEN /\ last' = [call |-> call, ret |-> [status |-> "failure"]]
             /\ UNCHANGED <<state, fs_root, fs_files, seen, enumerated>>
        ELSE /\ state' = [state EXCEPT !["repository_analysis"] = mark_entry(Store, path)]
             \* history: whether the path had an entry
             /\ last' = [call |-> call, existed |-> path \in DOMAIN Store,
                         ret |-> [status |-> "success"]]
             /\ UNCHANGED <<fs_root, fs_files, seen, enumerated>>

----------------------------------------------------------------------------
(* are_all_files_scanned *)

\* lines 278-284: the loop over repository_analysis.items(), visiting the keys
\* in the given order and returning at the first entry that is not scanned
RECURSIVE scan_loop(_, _)
scan_loop(ra, order) ==
    IF order = <<>> THEN TRUE
    ELSE IF ~ra[Head(order)].scanned THEN FALSE
    ELSE scan_loop(ra, Tail(order))

\* faulty variant of all_scanned_result: the loop returns after its first entry
all_scanned_result_first(st, order) ==
    IF "repository_analysis" \notin DOMAIN st
    THEN [status |-> "failure", all_files_scanned |-> FALSE]
    ELSE IF DOMAIN st["repository_analysis"] = {}
    THEN [status |-> "success", all_files_scanned |-> TRUE]
    ELSE [status |-> "success",
          all_files_scanned |-> st["repository_analysis"][Head(order)].scanned]

\* faulty variant of all_scanned_result: a missing store is read as an empty one
\* (state.get('repository_analysis', {}))
all_scanned_result_default(st, order) ==
    IF "repository_analysis" \notin DOMAIN st
    THEN [status |-> "success", all_files_scanned |-> TRUE]
    ELSE [status |-> "success",
          all_files_scanned |-> scan_loop(st["repository_analysis"], order)]

\* lines 268-284: the returned dict, for the state st and an iteration order
all_scanned_result(st, order) ==
    IF "repository_analysis" \notin DOMAIN st
    THEN [status |-> "failure", all_files_scanned |-> FALSE]
    ELSE IF DOMAIN st["repository_analysis"] = {}
    THEN [status |-> "success", all_files_scanned |-> TRUE]
    ELSE [status |-> "success",
          all_files_scanned |-> scan_loop(st["repository_analysis"], order)]

are_all_files_scanned ==
    \E order \in Orders(IF StoreSet THEN DOMAIN Store ELSE {}) :
        /\ last' = [call |-> [op |-> "are_all_files_scanned"],
                    ret |-> all_scanned_result(state, order)]
        /\ UNCHANGED <<state, fs_root, fs_files, seen, enumerated>>

----------------------------------------------------------------------------
(* generate_repository_analysis_jsonl *)

\* record = {"file_path": file_path, **details}
jsonl_record(ra, file_path) ==
    [file_path |-> file_path,
     sql_statements |-> ra[file_path].sql_statements,
     scanned |-> ra[file_path].scanned]

\* Text is a sequence of tokens: the punctuation of JSON, the quote, the path
\* separator, the newline, and the words they enclose.

\* a relative path as the string os.path.relpath returned: its components
\* with os.sep between them
RECURSIVE path_text(_)
path_text(path) ==
    IF Len(path) <= 1 THEN path
    ELSE <<Head(path), "/">> \o path_text(Tail(path))

\* json.dump of a str whose characters are the tokens chars
json_str(chars) == <<"\"">> \o chars \o <<"\"">>

\* json.dump of a list of statement strings
RECURSIVE json_items(_)
json_items(list) ==
    IF list = <<>> THEN <<>>
    ELSE IF Len(list) = 1 THEN json_str(<<Head(list)>>)
    ELSE json_str(<<Head(list)>>) \o <<",">> \o json_items(Tail(list))

json_list(list) == <<"[">> \o json_items(list) \o <<"]">>

json_bool(b) == IF b THEN <<"true">> ELSE <<"false">>

\* json.dump(record, f): the keys in the record's order, file_path first and
\* then those of the entry
json_dump(record) ==
    <<"{">> \o json_str(<<"file_path">>) \o <<":">> \o json_str(path_text(record.file_path))
          \o <<",">> \o json_str(<<"sql_statements">>) \o <<":">> \o json_list(record.sql_statements)
          \o <<",">> \o json_str(<<"scanned">>) \o <<":">> \o json_bool(record.scanned)
          \o <<"}">>

\* faulty variant of jsonl_text: the records are written without f.write('\n')
RECURSIVE jsonl_text_no_newline(_, _)
jsonl_text_no_newline(ra, order) ==
    IF order = <<>> THEN <<>>
    ELSE json_dump(jsonl_record(ra, Head(order))) \o jsonl_text_no_newline(ra, Tail(order))

\* lines 324-327: what the loop writes to the file, the entries visited in the
\* given order
RECURSIVE jsonl_text(_, _)
jsonl_text(ra, order) ==
    IF order = <<>> THEN <<>>
    ELSE json_dump(jsonl_record(ra, Head(order))) \o <<"\n">> \o jsonl_text(ra, Tail(order))

\* faulty variant of export_result: the report is refused while an entry is unscanned
export_result_gated(st, order, io) ==
    LET call == [op |-> "generate_repository_analysis_jsonl"]
    IN  IF "repo_name" \notin DOMAIN st \/ st["repo_name"] = ""
        THEN [call |-> call, ret |-> [status |-> "failure", message |-> "repo_name not found"]]
        ELSE IF "repository_analysis" \notin DOMAIN st
        THEN [call |-> call,
              ret |-> [status |-> "failure", message |-> "repository_analysis not found"]]
        ELSE IF \E k \in DOMAIN st["repository_analysis"] : ~st["repository_analysis"][k].scanned
        THEN [call |-> call, ret |-> [status |-> "failure", message |-> "not all files scanned"]]
        ELSE IF io = "ok"
        THEN [call |-> call,
              written |-> jsonl_text(st["repository_analysis"], order),
              ret |-> [status |-> "success",
                       output_file_path |-> <<"cwd", st["repo_name"], "_analysis.jsonl">>]]
        ELSE [call |-> call, ret |-> [status |-> "failure", message |-> "IOError"]]

\* lines 304-343: the returned dict and, on success, the text of the file;
\* io is whether open() and the writes went through
export_result(st, order, io) ==
    LET call == [op |-> "generate_repository_analysis_jsonl"]
    IN  IF "repo_name" \notin DOMAIN st \/ st["repo_name"] = ""
        THEN [call |-> call, ret |-> [status |-> "failure", message |-> "repo_name not found"]]
        ELSE IF "repository_analysis" \notin DOMAIN st
        THEN [call |-> call,
              ret |-> [status |-> "failure", message |-> "repository_analysis not found"]]
        ELSE IF io = "ok"
        THEN [call |-> call,
              written |-> jsonl_text(st["repository_analysis"], order),
              ret |-> [status |-> "success",
                       output_file_path |-> <<"cwd", st["repo_name"], "_analysis.jsonl">>]]
        ELSE [call |-> call, ret |-> [status |-> "failure", message |-> "IOError"]]

\* faulty variant of generate_repository_analysis_jsonl: the Store is emptied once
\* the report is written
generate_and_clear ==
    /\ \/ \E order \in Orders(IF StoreSet THEN DOMAIN Store ELSE {}) :
              last' = export_result(state, order, "ok")
       \/ last' = export_result(state, <<>>, "IOError")
    /\ state' = IF last'.ret.status = "success"
                THEN [state EXCEPT !["repository_analysis"] = <<>>]
                ELSE state
    /\ UNCHANGED <<fs_root, fs_files, seen, enumerated>>

generate_repository_analysis_jsonl ==
    /\ \/ \E order \in Orders(IF StoreSet THEN DOMAIN Store ELSE {}) :
              last' = export_result(state, order, "ok")
       \/ last' = export_result(state, <<>>, "IOError")
    /\ UNCHANGED <<state, fs_root, fs_files, seen, enumerated>>

----------------------------------------------------------------------------
(* The environment: the cloned working tree is an ordinary directory that    *)
(* other processes can change between tool calls.                           *)

external == [call |-> [op |-> "external"], ret |-> [status |-> "none"]]

file_created(f) ==
    /\ fs_root = "dir" /\ f \notin fs_files
    /\ fs_files' = fs_files \cup {f}
    /\ last' = external
    /\ UNCHANGED <<state, fs_root, seen, enumerated>>

file_removed(f) ==
    /\ fs_root = "dir" /\ f \in fs_files
    /\ fs_files' = fs_files \ {f}
    /\ last' = external
    /\ UNCHANGED <<state, fs_root, seen, enumerated>>

root_removed ==
    /\ fs_root = "dir"
    /\ fs_root' = "missing" /\ fs_files' = {}
    /\ last' = external
    /\ UNCHANGED <<state, seen, enumerated>>

root_replaced_by_file ==
    /\ fs_root = "missing" /\ "repo_path" \in DOMAIN state
    /\ fs_root' = "file"
    /\ last' = external
    /\ UNCHANGED <<state, fs_files, seen, enumerated>>

----------------------------------------------------------------------------

Init ==
    /\ state = <<>>
    /\ fs_root = "missing"
    /\ fs_files = {}
    /\ seen = {}
    /\ enumerated = FALSE
    /\ last = [call |-> [op |-> "none"], ret |-> [status |-> "none"]]

Next ==
    \/ \E url \in Urls : clone_git_repo(url)
    \/ list_repo_files
    \/ \E path \in WritePaths, sql_statements \in SqlLists : save_sql_statements(path, sql_statements)
    \/ \E path \in WritePaths : mark_file_as_scanned(path)
    \/ are_all_files_scanned
    \/ generate_repository_analysis_jsonl
    \/ \E f \in WorkFiles : file_created(f)
    \/ \E f \in WorkFiles : file_removed(f)
    \/ root_removed
    \/ root_replaced_by_file

Spec == Init /\ [][Next]_vars

\* the tool calls of the two agents alone, on a checkout nothing else touches
NextSession ==
    \/ \E url \in Urls : clone_git_repo(url)
    \/ list_repo_files
    \/ \E path \in WritePaths, sql_statements \in SqlLists : save_sql_statements(path, sql_statements)
    \/ \E path \in WritePaths : mark_file_as_scanned(path)
    \/ are_all_files_scanned
    \/ generate_repository_analysis_jsonl

SpecSession == Init /\ [][NextSession]_vars

----------------------------------------------------------------------------
(* The workflow of ROOT_AGENT_INSTRUCTION run once: clone, list the files,   *)
(* scan them, poll are_all_files_scanned, generate the report.  The caller   *)
(* may stop and later go on; it does not clone or enumerate a second time.   *)

\* the tracked paths still to be scanned
Unscanned == IF StoreSet THEN {k \in DOMAIN Store : ~Store[k].scanned} ELSE {}

resume_clone == ~StoreSet /\ \E url \in Urls : clone_git_repo(url)

resume_list == StoreSet /\ ~enumerated /\ list_repo_files

\* a scanner writes any path
resume_write ==
    /\ enumerated
    /\ \E path \in WritePaths :
          \/ mark_file_as_scanned(path)
          \/ \E sql_statements \in SqlLists : save_sql_statements(path, sql_statements)

\* a scanner writes a path that is still to be scanned
resume_pending ==
    /\ enumerated
    /\ \E path \in Unscanned :
          \/ mark_file_as_scanned(path)
          \/ \E sql_statements \in SqlLists : save_sql_statements(path, sql_statements)

resume_poll == are_all_files_scanned

resume_export == generate_repository_analysis_jsonl

NextResume ==
    \/ resume_clone
    \/ resume_list
    \/ resume_write
    \/ resume_pending
    \/ resume_poll
    \/ resume_export

\* the caller that resumes keeps writing the unscanned entries and keeps polling
SpecResume ==
    Init /\ [][NextResume]_vars /\ WF_vars(resume_pending) /\ WF_vars(resume_poll)

----------------------------------------------------------------------------
(* Properties *)

Op == last.call.op
Succeeded == "status" \in DOMAIN last.ret /\ last.ret.status = "success"
Keys == IF StoreSet THEN DOMAIN Store ELSE {}

\* the regular files on disk that lie in no .git directory
OutsideVcs == {f \in fs_files : \A i \in 1..(Len(f) - 1) : f[i] # ".git"}

\* every entry of the store is scanned (true of the empty store)
EveryEntryScanned == \A k \in DOMAIN Store : Store[k].scanned

\* C1: on an initialized Store, are_all_files_scanned succeeds and its verdict
\* is true exactly when the Store is empty or every entry is scanned, in every
\* reachable Store and for every order in which the entries are visited; the
\* verdict a call returned is that one.
C1_AllScannedContract ==
    StoreSet =>
        /\ \A order \in Orders(DOMAIN Store) :
               all_scanned_result(state, order) =
                   [status |-> "success",
                    all_files_scanned |-> (DOMAIN Store = {} \/ EveryEntryScanned)]
        /\ Op = "are_all_files_scanned" =>
               /\ Succeeded
               /\ last.ret.all_files_scanned = (DOMAIN Store = {} \/ EveryEntryScanned)

\* C1 witness: a call answered true on a Store of several entries, one of them
\* never found by an enumeration
C1_Witness ==
    /\ Op = "are_all_files_scanned" /\ Succeeded
    /\ last.ret.all_files_scanned
    /\ Cardinality(Keys) >= 2
    /\ \E k \in Keys : k \notin seen

\* C2: save_sql_statements on a path absent from an initialized Store succeeds;
\* afterwards the path maps to {statements: s, scanned: true}, the Store has
\* one entry more and every other entry is as before.
C2_RecordSelfHeals ==
    [][ (StoreSet /\ last'.call.op = "save_sql_statements"
                  /\ last'.call.path \notin DOMAIN Store) =>
          LET p == last'.call.path
              s == last'.call.sql_statements
          IN  /\ last'.ret = [status |-> "success"]
              /\ p \in DOMAIN Store'
              /\ Store'[p] = [sql_statements |-> s, scanned |-> TRUE]
              /\ Cardinality(DOMAIN Store') = Cardinality(DOMAIN Store) + 1
              /\ \A q \in DOMAIN Store : q \in DOMAIN Store' /\ Store'[q] = Store[q]
      ]_vars

\* C2 witness: a non-empty statement list was saved for a path that had no
\* entry, next to entries that were there already
C2_Witness ==
    /\ Op = "save_sql_statements" /\ Succeeded
    /\ ~last.existed
    /\ last.call.sql_statements # <<>>
    /\ Cardinality(Keys) >= 2

\* C3: save_sql_statements on a path already in the Store replaces its
\* statements by s, sets scanned, and leaves the key set and every other entry
\* unchanged.
C3_RecordReplaces ==
    [][ (StoreSet /\ last'.call.op = "save_sql_statements"
                  /\ last'.call.path \in DOMAIN Store) =>
          LET p == last'.call.path
              s == last'.call.sql_statements
          IN  /\ last'.ret = [status |-> "success"]
              /\ DOMAIN Store' = DOMAIN Store
              /\ Store'[p] = [sql_statements |-> s, scanned |-> TRUE]
              /\ \A q \in DOMAIN Store \ {p} : Store'[q] = Store[q]
      ]_vars

\* C3 witness: a save on a path whose entry held other statements
C3_Witness ==
    /\ Op = "save_sql_statements" /\ Succeeded
    /\ last.existed /\ last.replaced
    /\ Cardinality(Keys) >= 2

\* C4: mark_file_as_scanned sets scanned for the path and leaves its statements
\* as they were; an absent path is created as {statements: [], scanned: true};
\* every other entry is unchanged.
C4_MarkKeepsStatements ==
    [][ (StoreSet /\ last'.call.op = "mark_file_as_scanned") =>
          LET p == last'.call.path
          IN  /\ last'.ret = [status |-> "success"]
              /\ DOMAIN Store' = DOMAIN Store \cup {p}
              /\ Store'[p].scanned
              /\ Store'[p].sql_statements =
                     (IF p \in DOMAIN Store THEN Store[p].sql_statements ELSE <<>>)
              /\ \A q \in DOMAIN Store \ {p} : Store'[q] = Store[q]
      ]_vars

\* C4 witness: a path holding recorded statements was marked
C4_Witness ==
    /\ Op = "mark_file_as_scanned" /\ Succeeded
    /\ last.existed
    /\ Store[last.call.path].sql_statements # <<>>
    /\ Cardinality(Keys) >= 2

\* C5: a step that turns a scanned entry into an unscanned one, or that makes
\* an unscanned entry appear, is a successful list_repo_files that found the
\* path; no other operation does either.
C5_ScannedMonotonic ==
    [][ \A p \in Keys' :
          (~Store'[p].scanned /\ (p \in Keys => Store[p].scanned)) =>
              /\ last'.call.op = "list_repo_files"
              /\ last'.ret.status = "success"
              /\ p \in Range(last'.ret.files)
      ]_vars

\* C5 witness: a write has acted on a Store in which another entry,
\* scanned earlier, is still scanned
C5_Witness ==
    /\ Op \in {"save_sql_statements", "mark_file_as_scanned"} /\ Succeeded
    /\ last.existed
    /\ \E q \in Keys \ {last.call.path} : Store[q].scanned

\* C6 as claimed: after a successful enumeration the Store has exactly N
\* entries, N the number of regular files outside .git, all of them
\* {statements: [], scanned: false}, and the returned list is the Store's keys.
C6_SeedCompleteness_Claimed ==
    (Op = "list_repo_files" /\ Succeeded) =>
        /\ Cardinality(DOMAIN Store) = Cardinality(OutsideVcs)
        /\ \A k \in DOMAIN Store : Store[k] = seed_entry
        /\ Range(last.ret.files) = DOMAIN Store

\* C6 amended: a successful enumeration returns exactly the N regular files
\* outside .git, each once; each of them gets {statements: [], scanned: false};
\* the Store's keys are the keys it had together with the returned paths; so
\* the Store has exactly N entries, all of that form, and the list is its key
\* set, when every key it had is found again (an empty Store in particular).
C6_SeedCompleteness ==
    [][ (last'.call.op = "list_repo_files" /\ "status" \in DOMAIN last'.ret
                                           /\ last'.ret.status = "success") =>
          LET files == last'.ret.files
          IN  /\ Range(files) = OutsideVcs
              /\ Len(files) = Cardinality(OutsideVcs)
              /\ \A f \in Range(files) : Store'[f] = seed_entry
              /\ DOMAIN Store' = Keys \cup Range(files)
              /\ Keys \subseteq Range(files) =>
                     /\ Cardinality(DOMAIN Store') = Cardinality(OutsideVcs)
                     /\ \A k \in DOMAIN Store' : Store'[k] = seed_entry
                     /\ Range(files) = DOMAIN Store'
      ]_vars

\* C6 witness: an enumeration of a tree with two work files and a .git
\* directory, on a Store that held nothing else
C6_Witness ==
    /\ Op = "list_repo_files" /\ Succeeded
    /\ Len(last.ret.files) = 2
    /\ GitFiles \subseteq fs_files
    /\ DOMAIN Store = Range(last.ret.files)

\* C7 as claimed (I1): every key of the Store is a path that existed under the
\* repository root at an enumeration.
C7_KeysWereEnumerated_Claimed ==
    StoreSet => DOMAIN Store \subseteq seen

\* C7 amended: a key enters the Store only as a file that exists under the
\* root when an enumeration finds it, or as the path given to
\* save_sql_statements or mark_file_as_scanned (the self-healing insert).
C7_KeysEnumeratedOrWritten ==
    [][ \A k \in Keys' \ Keys :
          \/ /\ last'.call.op = "list_repo_files"
             /\ k \in fs_files /\ k \in seen'
          \/ /\ last'.call.op \in {"save_sql_statements", "mark_file_as_scanned"}
             /\ k = last'.call.path
      ]_vars

\* C7 witness: the Store holds a key found by an enumeration next to a key no
\* enumeration ever saw
C7_Witness ==
    /\ StoreSet
    /\ \E k \in DOMAIN Store : k \in seen
    /\ \E k \in DOMAIN Store : k \notin seen

\* C8: list_repo_files on a populated Store resets every entry whose path it
\* finds again to {statements: [], scanned: false} and leaves every other
\* entry as it was.
C8_ReenumerationResets ==
    [][ (StoreSet /\ last'.call.op = "list_repo_files"
                  /\ "status" \in DOMAIN last'.ret /\ last'.ret.status = "success") =>
          \A p \in DOMAIN Store :
              /\ p \in DOMAIN Store'
              /\ Store'[p] = (IF p \in Range(last'.ret.files) THEN seed_entry ELSE Store[p])
      ]_vars

\* C8 witness: an enumeration discarded a recorded entry and left alone a
\* scanned entry whose path it did not find
C8_Witness ==
    /\ Op = "list_repo_files" /\ Succeeded
    /\ last.reset # {}
    /\ \E k \in DOMAIN Store \ Range(last.ret.files) : Store[k] # seed_entry

\* C9 as claimed: a completion query in a session in which no enumeration has
\* run returns a failure.
C9_QueryBeforeEnumeration_Claimed ==
    (Op = "are_all_files_scanned" /\ ~enumerated) => last.ret.status = "failure"

\* C9 amended: the completion query fails exactly when the Store is absent
\* from the session state, which is so until the first successful clone; its
\* failure carries all_files_scanned = false; after a clone, with no
\* enumeration run and the Store still empty, it succeeds with verdict true.
C9_QueryBeforeClone ==
    /\ StoreSet <=> "repo_path" \in DOMAIN state
    /\ Op = "are_all_files_scanned" =>
           /\ last.ret.status = "failure" <=> ~StoreSet
           /\ ~StoreSet => ~last.ret.all_files_scanned
           /\ (StoreSet /\ DOMAIN Store = {}) => last.ret.all_files_scanned

\* C9 witness: the query answered true after a clone and before any enumeration
C9_Witness ==
    /\ Op = "are_all_files_scanned"
    /\ ~enumerated
    /\ StoreSet /\ DOMAIN Store = {}
    /\ last.ret = [status |-> "success", all_files_scanned |-> TRUE]

\* C10 as claimed: every tool call returns a structured result (a dict with a
\* status); none ends with an exception.
C10_NoUncaughtFault_Claimed ==
    /\ "exception" \notin DOMAIN last.ret
    /\ "status" \in DOMAIN last.ret

\* C11: after the enumeration and any writes, a completion query made while an
\* entry is unscanned answers false; a caller that goes on writing the
\* unscanned entries, without enumerating again, gets to a query that answers
\* true with every entry scanned; and whenever the query answers true the
\* report generator has the repo_name and the Store it needs.
C11_AbortAndResume ==
    /\ []((enumerated /\ Op = "are_all_files_scanned" /\ Unscanned # {}) =>
              last.ret = [status |-> "success", all_files_scanned |-> FALSE])
    /\ (enumerated /\ Unscanned # {}) ~>
           (Op = "are_all_files_scanned" /\ Succeeded /\ last.ret.all_files_scanned
                /\ Unscanned = {})
    /\ []((Op = "are_all_files_scanned" /\ Succeeded /\ last.ret.all_files_scanned) =>
              (StoreSet /\ "repo_name" \in DOMAIN state /\ state["repo_name"] # ""))

\* C11 witness: the query answers true on a Store of two enumerated files that
\* were both written after the enumeration
C11_Witness ==
    /\ Op = "are_all_files_scanned" /\ Succeeded /\ last.ret.all_files_scanned
    /\ enumerated
    /\ Cardinality(Keys \cap seen) >= 2

\* Reading a report back (json.loads on each line of the file).

\* the lines of a text: the tokens before each newline
RECURSIVE text_lines(_)
text_lines(text) ==
    IF text = <<>> THEN <<>>
    ELSE LET nl == {i \in 1..Len(text) : text[i] = "\n"}
         IN  IF nl = {} THEN <<text>>
             ELSE LET n == CHOOSE i \in nl : \A j \in nl : i <= j
                  IN  <<SubSeq(text, 1, n - 1)>> \o text_lines(SubSeq(text, n + 1, Len(text)))

\* the index of the quote that closes the string opened at index i
closing(toks, i) == CHOOSE j \in (i + 1)..Len(toks) :
                        toks[j] = "\"" /\ \A k \in (i + 1)..(j - 1) : toks[k] # "\""

\* the strings of a JSON list whose first item, or "]", is at index i
RECURSIVE parse_items(_, _)
parse_items(toks, i) ==
    IF toks[i] = "]" THEN <<>>
    ELSE IF toks[i] = "," THEN parse_items(toks, i + 1)
    ELSE <<toks[i + 1]>> \o parse_items(toks, closing(toks, i) + 1)

\* the index after the value that starts at index i
value_end(toks, i) ==
    IF toks[i] = "\"" THEN closing(toks, i) + 1
    ELSE IF toks[i] = "["
    THEN 1 + (CHOOSE j \in i..Len(toks) : toks[j] = "]" /\ \A k \in i..(j - 1) : toks[k] # "]")
    ELSE i + 1

\* the index of the value of member key in the object that opens at index 1
RECURSIVE member_at(_, _, _)
member_at(toks, key, i) ==
    LET k_end == closing(toks, i)
        v     == k_end + 2
    IN  IF SubSeq(toks, i + 1, k_end - 1) = <<key>> THEN v
        ELSE member_at(toks, key, value_end(toks, v) + 1)

\* a path string split at the separators
parse_path(chars) ==
    LET idx == {i \in 1..Len(chars) : chars[i] # "/"}
        nth(n) == CHOOSE i \in idx : Cardinality({j \in idx : j < i}) = n - 1
    IN  [n \in 1..Cardinality(idx) |-> chars[nth(n)]]

\* the record a line holds
parse_line(toks) ==
    LET p == member_at(toks, "file_path", 2)
        q == member_at(toks, "sql_statements", 2)
        b == member_at(toks, "scanned", 2)
    IN  [file_path |-> parse_path(SubSeq(toks, p + 1, closing(toks, p) - 1)),
         sql_statements |-> parse_items(toks, q + 1),
         scanned |-> toks[b] = "true"]

\* the mapping a report's lines describe
parse_report(lines) ==
    LET recs == [i \in 1..Len(lines) |-> parse_line(lines[i])]
    IN  [k \in {recs[i].file_path : i \in 1..Len(lines)} |->
            LET r == recs[CHOOSE i \in 1..Len(lines) : recs[i].file_path = k]
            IN  [sql_statements |-> r.sql_statements, scanned |-> r.scanned]]

C13_ExportNotGated ==
    Op = "generate_repository_analysis_jsonl" =>
        /\ ~Succeeded =>
               /\ last.ret.message \in
                      {"repo_name not found", "repository_analysis not found", "IOError"}
               /\ last.ret.message = "repo_name not found" => "repo_name" \notin DOMAIN state
               /\ last.ret.message = "repository_analysis not found" => ~StoreSet
        /\ Succeeded =>
               LET lines == text_lines(last.written)
                   recs  == {parse_line(lines[i]) : i \in 1..Len(lines)}
               IN  \A k \in Unscanned :
                       [file_path |-> k,
                        sql_statements |-> Store[k].sql_statements,
                        scanned |-> FALSE] \in recs

\* C13 witness: a report was written while one entry was unscanned and
\* another scanned
C13_Witness ==
    /\ Op = "generate_repository_analysis_jsonl" /\ Succeeded
    /\ Unscanned # {}
    /\ Keys \ Unscanned # {}

\* C14: a save_sql_statements call that repeats the call just made, with the
\* same path and the same statements, leaves the whole session state as the
\* first call left it.
C14_RecordIdempotent ==
    [][ (/\ last.call.op = "save_sql_statements"
         /\ last.ret.status = "success"
         /\ last'.call = last.call) => state' = state ]_vars

\* C14 witness: a save of a non-empty list on a path that already held these
\* statements, scanned
C14_Witness ==
    /\ Op = "save_sql_statements" /\ Succeeded
    /\ last.existed /\ ~last.replaced
    /\ last.call.sql_statements # <<>>

\* C15: a step of are_all_files_scanned or generate_repository_analysis_jsonl,
\* whatever it returns, leaves the session state (repo path, owner, name and
\* the Store) as it was.
C15_ReadersReadOnly ==
    [][ last'.call.op \in {"are_all_files_scanned", "generate_repository_analysis_jsonl"}
            => state' = state ]_vars

\* C15 witness: a report failed on an I/O error with a populated Store
C15_Witness ==
    /\ Op = "generate_repository_analysis_jsonl"
    /\ ~Succeeded /\ last.ret.message = "IOError"
    /\ Keys # {}

\* C16: a clone_git_repo step that fails returns a failure dict with a message
\* and leaves the session state as it was; for a locator that does not match,
\* no directory was made and no clone attempted; and the returned dict is the
\* same whether the cleanup removed the directory, raised, or had nothing to do.
C16_FailedCloneLeavesState ==
    [][ (last'.call.op = "clone_git_repo" /\ last'.ret.status = "failure") =>
            /\ state' = state
            /\ DOMAIN last'.ret = {"status", "message"}
            /\ ssh_url_match(last'.call.url) = {} =>
                   ~last'.made_dir /\ ~last'.clone_attempted
            /\ last'.ret.message \in
                   {"Invalid or unsupported SSH repository URL format",
                    "Git command error", "Unexpected error"}
            /\ \A fault \in CloneFaults :
                   (/\ fault.raised_in = "clone_from"
                    /\ fault.error_type = last'.ret.message
                    /\ last'.clone_attempted)
                   => clone_failed(last'.call, fault).ret = last'.ret ]_vars

\* C16 witness: a clone failed after an earlier session had recorded entries,
\* and the cleanup of the temporary directory raised
C16_Witness ==
    /\ Op = "clone_git_repo" /\ ~Succeeded
    /\ last.clone_attempted /\ last.cleanup = "failed"
    /\ StoreSet /\ Keys # {}

\* C17: a list_repo_files step taken with the root missing or not a directory
\* returns a failure and leaves the session state as it was; and no step of
\* list_repo_files that does not succeed creates or changes the Store.
C17_FailedListLeavesStore ==
    [][ last'.call.op = "list_repo_files" =>
            /\ ("repo_path" \in DOMAIN state /\ fs_root # "dir") =>
                   /\ "status" \in DOMAIN last'.ret
                   /\ last'.ret.status = "failure"
                   /\ state' = state
            /\ ("status" \notin DOMAIN last'.ret \/ last'.ret.status # "success") =>
                   /\ StoreSet' = StoreSet
                   /\ StoreSet => Store' = Store ]_vars

\* C17 witness: enumeration failed on a root that is a regular file while the
\* Store held a scanned entry with statements
C17_Witness ==
    /\ Op = "list_repo_files" /\ ~Succeeded
    /\ fs_root = "file"
    /\ StoreSet
    /\ \E k \in Keys : Store[k].scanned /\ Store[k].sql_statements # <<>>

\* the state st has a Store and each of its entries is scanned: the states in
\* which are_all_files_scanned answers true (C1)
Verdict(st) ==
    /\ "repository_analysis" \in DOMAIN st
    /\ \A k \in DOMAIN st["repository_analysis"] : st["repository_analysis"][k].scanned

\* C18: if are_all_files_scanned would answer true, it still would after any
\* save_sql_statements or mark_file_as_scanned step, on a present or an absent
\* path, and the written entry is scanned; a step that turns the answer from
\* true to false, or that takes a scanned entry back to unscanned or away, is
\* a successful list_repo_files or clone_git_repo.
C18_WritesPreserveCompletion ==
    [][ /\ (last'.call.op \in {"save_sql_statements", "mark_file_as_scanned"}
            /\ last'.ret.status = "success") =>
               /\ Store'[last'.call.path].scanned
               /\ Verdict(state) => Verdict(state')
        /\ ~(/\ last'.call.op \in {"list_repo_files", "clone_git_repo"}
              /\ "status" \in DOMAIN last'.ret
              /\ last'.ret.status = "success") =>
               /\ Verdict(state) => Verdict(state')
               /\ \A k \in Keys : Store[k].scanned => (k \in Keys' /\ Store'[k].scanned) ]_vars

\* C18 witness: mark_file_as_scanned created the entry of its path beside
\* another entry, and every entry is scanned
C18_Witness ==
    /\ Op = "mark_file_as_scanned" /\ Succeeded
    /\ ~last.existed
    /\ Cardinality(Keys) >= 2
    /\ Verdict(state)

\* the step is a successful write, by either writer
Wrote(l) ==
    /\ l.call.op \in {"save_sql_statements", "mark_file_as_scanned"}
    /\ l.ret.status = "success"

\* C19: save_sql_statements and mark_file_as_scanned have no await, so two
\* pending calls run one after the other, in either order.  On a path that had
\* no entry, save(p, s) followed by mark(p), and mark(p) followed by
\* save(p, s), both end with the entry {s, true}; and of two writes to
\* distinct paths, the second leaves the entry of the first as it was and
\* sets its own.
C19_ConcurrentWriters ==
    [][ (Wrote(last) /\ Wrote(last')) =>
            LET p == last.call.path
                q == last'.call.path
            IN  /\ (/\ p = q /\ ~last.existed
                     /\ last.call.op = "save_sql_statements"
                     /\ last'.call.op = "mark_file_as_scanned") =>
                        Store'[p] = [sql_statements |-> last.call.sql_statements,
                                     scanned |-> TRUE]
                /\ (/\ p = q /\ ~last.existed
                     /\ last.call.op = "mark_file_as_scanned"
                     /\ last'.call.op = "save_sql_statements") =>
                        Store'[p] = [sql_statements |-> last'.call.sql_statements,
                                     scanned |-> TRUE]
                /\ p # q =>
                        /\ Store'[p] = Store[p]
                        /\ Store'[q].scanned
                        /\ last'.call.op = "save_sql_statements" =>
                               Store'[q].sql_statements = last'.call.sql_statements ]_vars

\* C19 witness: mark_file_as_scanned ran on a path no enumeration can find,
\* whose entry a save had created with statements, and the statements are
\* still there
C19_Witness ==
    /\ Op = "mark_file_as_scanned" /\ Succeeded
    /\ last.call.path = <<"y.sql">>
    /\ last.existed
    /\ Store[<<"y.sql">>] = [sql_statements |-> <<"SELECT 1">>, scanned |-> TRUE]

\* C20: every step but a successful clone_git_repo keeps each key of the
\* Store; a successful clone_git_repo leaves the Store empty.
C20_KeysOnlyGrow ==
    [][ /\ ~(last'.call.op = "clone_git_repo" /\ last'.ret.status = "success") =>
               /\ StoreSet => StoreSet'
               /\ Keys \subseteq Keys'
        /\ (last'.call.op = "clone_git_repo" /\ last'.ret.status = "success") =>
               /\ StoreSet'
               /\ Store' = <<>> ]_vars

\* C20 witness: a successful clone emptied a Store that held entries
C20_Witness ==
    /\ Op = "clone_git_repo" /\ Succeeded
    /\ last.dropped
    /\ Store = <<>>
====
